---- MODULE Spec2Model ----
(***************************************************************************)
(* A model of fedireads/incoming.py: the inbound ActivityPub endpoint      *)
(* (shared_inbox / inbox, verify_signature, the four activity handlers)    *)
(* and the followers/following collection paginator.                       *)
(***************************************************************************)
EXTENDS Integers, Sequences, FiniteSets, TLC

VARIABLES
    user_list,          \* the ordered collection a followers/following endpoint formats
    response,           \* the JSON document the collection endpoint returned last
    req,                \* per worker: the inbound request it is handling and how far it got
    users,              \* models.User rows (local users and stored remote actors)
    followers,          \* User.followers: pairs <<followed, follower>> of actor ids
    follow_activities,  \* persisted models.FollowActivity rows
    activities,         \* persisted models.Activity / models.ReviewActivity rows
    reviews,            \* persisted models.Review rows
    shelve_activities,  \* uuids of the persisted models.ShelveActivity rows
    shelf_books,        \* persisted models.ShelfBook rows
    books,              \* persisted models.Book rows (their ids)
    accepts,            \* Accept activities handed to outgoing.handle_outgoing_accept
    nreq                \* number of inbound requests admitted so far

pagevars == <<user_list, response>>
dbvars == <<users, followers, follow_activities, activities, reviews,
            shelve_activities, shelf_books, books, accepts>>
vars == <<user_list, response, req, users, followers, follow_activities,
          activities, reviews, shelve_activities, shelf_books, books, accepts, nreq>>

(***************************************************************************)
(* Bounds of the model.                                                    *)
(***************************************************************************)
MaxItems == 25      \* longest collection formatted
MaxPage == 4        \* largest page number requested
MaxRequests == 2    \* inbound requests admitted in one behaviour

(***************************************************************************)
(* Collection paginator: format_follow_info, get_follow_page.              *)
(***************************************************************************)
page_length == 10

Min(a, b) == IF a <= b THEN a ELSE b

\* Python/Django slicing s[start:end] for 0 <= start <= end: both ends are
\* clamped to the length, positions are 0-based, end is exclusive.
Slice(s, start, end) ==
    LET lo == Min(start, Len(s))
        hi == Min(end, Len(s))
    IN  [i \in 1..(hi - lo) |-> s[lo + i]]

\* A dict as a function from its keys; a key the code does not set is absent.
id_slug == "following"

NoResponse == [type |-> "none"]

\* get_follow_page as written, with the slice starting one page too far
\* (start = page * page_length).
GetFollowPageSkipsFirst(list, page) ==
    LET start == page * page_length
        end == start + page_length
        data == [id |-> <<id_slug, page>>,
                 type |-> "OrderedCollectionPage",
                 totalItems |-> Len(list),
                 partOf |-> id_slug,
                 orderedItems |-> Slice(list, start, end)]
        withNext == IF end <= Len(list)
                    THEN data @@ ("next" :> <<id_slug, page + 1>>)
                    ELSE data
    IN  IF start > 0
        THEN withNext @@ ("prev" :> <<id_slug, page - 1>>)
        ELSE withNext

GetFollowPage(list, page) ==
    LET start == (page - 1) * page_length
        end == start + page_length
        data == [id |-> <<id_slug, page>>,
                 type |-> "OrderedCollectionPage",
                 totalItems |-> Len(list),
                 partOf |-> id_slug,
                 orderedItems |-> Slice(list, start, end)]
        withNext == IF end <= Len(list)
                    THEN data @@ ("next" :> <<id_slug, page + 1>>)
                    ELSE data
    IN  IF start > 0
        THEN withNext @@ ("prev" :> <<id_slug, page - 1>>)
        ELSE withNext

\* page is the optional query parameter: <<>> when absent, <<p>> when given.
FormatFollowInfo(list, page) ==
    IF page # <<>>
    THEN GetFollowPage(list, page[1])
    ELSE [id |-> <<id_slug>>,
          type |-> "OrderedCollection",
          totalItems |-> Len(list),
          first |-> <<id_slug, 1>>]

(***************************************************************************)
(* Inbound requests.                                                       *)
(***************************************************************************)
Procs == {"w1", "w2"}               \* request workers running concurrently
Methods == {"GET", "POST", "PUT"}
Usernames == {"alice", "nobody"}    \* alice is a local user, nobody is not
Actors == {"alice", "bob"}          \* alice: local user; bob: a remote actor
Targets == {"alice", "bob", "ghost"} \* ghost names no user at all
ActivityIds == {"a1", "a2"}

AliceRow == [pk |-> 1, actor |-> "alice", local |-> TRUE]
NoRow == [pk |-> 0, actor |-> "-", local |-> FALSE]

\* activity['object']: absent, or a document of which the handlers read
\* 'actor' (Accept), 'fedireadsType', 'inReplyTo', 'type', 'id' (Create) or
\* the whole value as an actor id (Follow).
NoObject == [present |-> FALSE, actor |-> "-", marker |-> FALSE,
             inReplyTo |-> FALSE, type |-> "-", valid |-> FALSE, review |-> 0]

Object(actor, marker, inReplyTo, type, valid, review) ==
    [present |-> TRUE, actor |-> actor, marker |-> marker,
     inReplyTo |-> inReplyTo, type |-> type, valid |-> valid, review |-> review]

\* type "-" stands for a document without a 'type' key
NoActivity == [type |-> "-", id |-> "-", actor |-> "-", object |-> NoObject]

\* Create objects: marker = (fedireadsType == 'Review'); valid = create_review
\* accepts the embedded fields (read for a remote actor only); review = the
\* pk in the last segment of object['id'] (read for a local actor only: pk 1
\* exists, pk 0 does not).
CreateObjects(actor) ==
    IF actor = "alice"
    THEN {Object("-", FALSE, FALSE, "Note", FALSE, 0)}
         \cup {Object("-", TRUE, TRUE, t, FALSE, r) : t \in {"Note", "-"}, r \in {0, 1}}
    ELSE {NoObject}
         \cup {Object("-", m, FALSE, t, FALSE, 0) : m \in BOOLEAN, t \in {"Note", "-"}}
         \cup {Object("-", FALSE, TRUE, "Note", FALSE, 0)}
         \cup {Object("-", TRUE, TRUE, t, v, 0) : t \in {"Note", "-"}, v \in BOOLEAN}

\* The activities delivered.  Every shape arrives under id a1; a2 is a second
\* id for a Follow, a generic Create and a review Create of bob, and the id
\* of an Add no ShelveActivity row has.  Follow and Accept come from the
\* remote actor bob; the local actor alice sends Creates (a note and the
\* review shapes, which take the branch of line 288).
Activities ==
    {[type |-> "Add", id |-> i, actor |-> "bob", object |-> NoObject] :
        i \in ActivityIds}
    \cup {[type |-> "Follow", id |-> "a1", actor |-> "bob",
           object |-> Object(t, FALSE, FALSE, "-", FALSE, 0)] : t \in Targets}
    \cup {[type |-> "Follow", id |-> "a2", actor |-> "bob",
           object |-> Object("alice", FALSE, FALSE, "-", FALSE, 0)]}
    \cup {[type |-> "Accept", id |-> "a1", actor |-> "bob",
           object |-> Object(t, FALSE, FALSE, "Follow", FALSE, 0)] : t \in Targets}
    \cup UNION {{[type |-> "Create", id |-> "a1", actor |-> a, object |-> o] :
                    o \in CreateObjects(a)} : a \in Actors}
    \cup {[type |-> "Create", id |-> "a2", actor |-> "bob", object |-> o] :
            o \in {Object("-", FALSE, FALSE, "Note", FALSE, 0),
                   Object("-", TRUE, TRUE, "Note", TRUE, 0)}}
    \cup {[type |-> t, id |-> "a1", actor |-> "bob", object |-> NoObject] :
            t \in {"Undo", "-"}}

(***************************************************************************)
(* verify_signature                                                        *)
(***************************************************************************)
\* What the request carries for the verifier:
\*   header     the Signature header is present
\*   pairs_ok   every comma-separated pair contains '='
\*   keys       the keys of signature_dict
\*   b64_ok     the 'signature' value base64-decodes
\*   fetch_ok   the GET of keyId answers with a success status
\*   doc        the fetched actor document
\*   signed     the header names listed in 'headers'
\*   forged     the signature was not made with the key published at keyId
RequiredKeys == {"keyId", "headers", "signature"}

GoodSignature ==
    [header |-> TRUE, pairs_ok |-> TRUE, keys |-> RequiredKeys, b64_ok |-> TRUE,
     fetch_ok |-> TRUE, doc |-> "ok",
     signed |-> <<"(request-target)", "host", "date">>, forged |-> FALSE]

Signatures ==
    {GoodSignature,
     [GoodSignature EXCEPT !.signed = <<"date", "host">>],
     [GoodSignature EXCEPT !.header = FALSE],
     [GoodSignature EXCEPT !.pairs_ok = FALSE],
     [GoodSignature EXCEPT !.b64_ok = FALSE],
     [GoodSignature EXCEPT !.fetch_ok = FALSE],
     [GoodSignature EXCEPT !.doc = "not_json"],
     [GoodSignature EXCEPT !.doc = "no_public_key"],
     [GoodSignature EXCEPT !.doc = "bad_pem"],
     [GoodSignature EXCEPT !.signed = <<"(request-target)", "digest">>],
     [GoodSignature EXCEPT !.forged = TRUE]}
    \cup {[GoodSignature EXCEPT !.keys = RequiredKeys \ {k}] : k \in RequiredKeys}

\* the headers every modelled request carries besides Signature
RequestHeaders == [host |-> "example.com", date |-> "today"]

Path(endpoint) == IF endpoint = "inbox" THEN "/user/inbox" ELSE "/inbox"

Lower(method) ==
    CASE method = "GET" -> "get" [] method = "POST" -> "post" [] method = "PUT" -> "put"

\* the string a conforming sender signs (draft-cavage HTTP signatures)
SignedString(signed, method, path) ==
    [i \in DOMAIN signed |->
        IF signed[i] = "(request-target)"
        THEN <<"(request-target)", Lower(method), path>>
        ELSE <<signed[i], RequestHeaders[signed[i]]>>]

\* lines 78-87: one "name: value" line per listed header, in the given order
ComparisonString(signed, path) ==
    [i \in DOMAIN signed |->
        IF signed[i] = "(request-target)"
        THEN <<"(request-target)", "post", path>>
        ELSE <<signed[i], RequestHeaders[signed[i]]>>]

\* how a call of verify_signature ended: the exception raised, what made it
\* fail, the outbound fetches issued, and comparison_string once line 87 has
\* built it (<<>> before)
Ended(exc, cause, fetches, comparison) ==
    [exc |-> exc, cause |-> cause, fetches |-> fetches, comparison |-> comparison]

Raise(exc, cause, fetches) == Ended(exc, cause, fetches, <<>>)

\* verify_signature(request): the exception it raises ("none": it returns
\* True), what made it fail, and the outbound fetches it issued.
VerifySignature(request) ==
    LET sig == request.sig IN
    IF ~sig.header THEN Raise("KeyError", "no_signature_header", 0)
    ELSE IF ~sig.pairs_ok THEN Raise("ValueError", "malformed_pair", 0)
    ELSE IF ~(RequiredKeys \subseteq sig.keys)
        THEN Raise("ValueError", "missing_key", 0)
    ELSE IF ~sig.b64_ok THEN Raise("ValueError", "bad_base64", 0)
    ELSE IF ~sig.fetch_ok THEN Raise("ValueError", "fetch_failed", 1)
    ELSE IF sig.doc = "not_json" THEN Raise("ValueError", "not_json", 1)
    ELSE IF sig.doc = "no_public_key" THEN Raise("KeyError", "no_public_key", 1)
    ELSE IF sig.doc = "bad_pem" THEN Raise("ValueError", "bad_pem", 1)
    ELSE IF \E i \in DOMAIN sig.signed :
                /\ sig.signed[i] # "(request-target)"
                /\ sig.signed[i] \notin DOMAIN RequestHeaders
        THEN Raise("KeyError", "missing_signed_header", 1)
    ELSE IF \/ sig.forged
            \/ ComparisonString(sig.signed, request.path)
                 # SignedString(sig.signed, request.method, request.path)
        THEN Ended("ValueError", "signature_mismatch", 1,
                   ComparisonString(sig.signed, request.path))
    ELSE Ended("none", "verified", 1, ComparisonString(sig.signed, request.path))

(***************************************************************************)
(* shared_inbox, inbox                                                     *)
(***************************************************************************)
DefaultActivity ==
    [type |-> "Follow", id |-> "a1", actor |-> "bob",
     object |-> Object("alice", FALSE, FALSE, "-", FALSE, 0)]

BaseRequest(endpoint, username, method) ==
    [endpoint |-> endpoint, username |-> username, method |-> method,
     path |-> Path(endpoint), body_ok |-> TRUE, sig |-> GoodSignature,
     activity |-> DefaultActivity]

Requests ==
    {BaseRequest("shared_inbox", "-", m) : m \in Methods}
    \cup {BaseRequest("inbox", u, m) : u \in Usernames, m \in Methods}
    \cup {[BaseRequest(e, IF e = "inbox" THEN "alice" ELSE "-", m)
                EXCEPT !.body_ok = FALSE, !.sig = s] :
            e \in {"shared_inbox", "inbox"}, m \in Methods \ {"GET"},
            s \in {GoodSignature, [GoodSignature EXCEPT !.forged = TRUE]}}
    \cup {[BaseRequest("inbox", "nobody", "POST") EXCEPT !.body_ok = FALSE]}
    \cup {[BaseRequest("shared_inbox", "-", "POST") EXCEPT !.sig = s] :
            s \in Signatures}
    \cup {[BaseRequest("shared_inbox", "-", "POST") EXCEPT !.activity = a] :
            a \in Activities}

\* A worker: where it is (pc), the request it serves, what has run for it
\* (parsed: json.loads ran; verify: how verify_signature ended; fetches: key
\* fetches issued; handler: the handler dispatched to; sent: Accepts handed
\* to outgoing), the handler's locals (target: to_follow / requester; user:
\* the resolver's result; resolved: how the resolver call ended) and the
\* response (outcome; exc: the exception that escaped the view, if any).
\* Of the request it keeps the endpoint, the method, whether the body is
\* JSON (body_ok) and whether its signature is one verify_signature accepts
\* (sig_ok); comparison is the verifier's comparison_string once built.
Idle ==
    [pc |-> "idle", endpoint |-> "-", username |-> "-", method |-> "-",
     body_ok |-> TRUE, sig_ok |-> TRUE, comparison |-> <<>>,
     parsed |-> FALSE, verify |-> "not_run", fetches |-> 0, handler |-> "none",
     activity |-> NoActivity, target |-> NoRow, user |-> NoRow,
     resolved |-> "-", sent |-> 0,
     outcome |-> "none", exc |-> "none"]

Return(slot, outcome) == [slot EXCEPT !.pc = "done", !.outcome = outcome]

\* an exception nothing catches: the request ends as a server error
Crash(slot, exc) == [slot EXCEPT !.pc = "done", !.outcome = "ServerError", !.exc = exc]

\* lines 35-50: the if/elif chain on activity['type']; the handler's response
\* becomes the view's response.  pc names the handler statement to run next
\* (handle_incoming_create starts with the resolver call).
Dispatch(slot, activity) ==
    LET s == [slot EXCEPT !.activity = activity] IN
    IF activity.type = "-" THEN Crash(s, "KeyError")
    ELSE IF activity.type = "Add"
        THEN [s EXCEPT !.pc = "shelve", !.handler = "shelve"]
    ELSE IF activity.type = "Follow"
        THEN [s EXCEPT !.pc = "follow", !.handler = "follow"]
    ELSE IF activity.type = "Create"
        THEN [s EXCEPT !.pc = "resolve", !.handler = "create"]
    ELSE IF activity.type = "Accept"
        THEN [s EXCEPT !.pc = "accept", !.handler = "accept"]
    ELSE Return(s, "NotFound")

\* the worker's record when the request arrives
Arrived(request) ==
    [Idle EXCEPT !.endpoint = request.endpoint,
                 !.username = request.username,
                 !.method = request.method,
                 !.body_ok = request.body_ok,
                 !.sig_ok = (VerifySignature(request).exc = "none")]

\* the worker's record after the call of verify_signature at line 31
AfterVerify(slot, request) ==
    LET v == VerifySignature(request) IN
    [slot EXCEPT !.verify = v.cause, !.fetches = v.fetches,
                 !.comparison = v.comparison]

\* shared_inbox going on to the handler after verify_signature raised
\* ValueError (the return of line 33 left out)
SharedInboxIgnoresAuthFailure(request) ==
    LET s0 == Arrived(request) IN
    IF request.method = "GET" THEN Return(s0, "NotFound")
    ELSE IF ~request.body_ok THEN Return([s0 EXCEPT !.parsed = TRUE], "BadRequest")
    ELSE LET v == VerifySignature(request)
             s1 == AfterVerify([s0 EXCEPT !.parsed = TRUE], request)
         IN  IF v.exc \notin {"none", "ValueError"} THEN Crash(s1, v.exc)
             ELSE Dispatch(s1, request.activity)

\* shared_inbox with the two try blocks in the other order: the signature
\* is verified before the body is parsed
SharedInboxVerifiesFirst(request) ==
    LET s0 == Arrived(request) IN
    IF request.method = "GET" THEN Return(s0, "NotFound")
    ELSE LET v == VerifySignature(request)
             s1 == AfterVerify(s0, request)
         IN  IF v.exc = "ValueError" THEN Return(s1, "Unauthorized")
             ELSE IF v.exc # "none" THEN Crash(s1, v.exc)
             ELSE IF ~request.body_ok
                 THEN Return([s1 EXCEPT !.parsed = TRUE], "BadRequest")
             ELSE Dispatch([s1 EXCEPT !.parsed = TRUE], request.activity)

\* shared_inbox(request), lines 19-50, up to the call of the handler
SharedInbox(request) ==
    LET s0 == Arrived(request) IN
    IF request.method = "GET" THEN Return(s0, "NotFound")
    ELSE IF ~request.body_ok THEN Return([s0 EXCEPT !.parsed = TRUE], "BadRequest")
    ELSE LET v == VerifySignature(request)
             s1 == AfterVerify([s0 EXCEPT !.parsed = TRUE], request)
         IN  IF v.exc = "ValueError" THEN Return(s1, "Unauthorized")
             ELSE IF v.exc # "none" THEN Crash(s1, v.exc)
             ELSE Dispatch(s1, request.activity)

\* models.User.objects.get(localname=username) finds a row
LocalnameExists(username) ==
    \E u \in users : u.local /\ u.actor = username

\* inbox without the lookup of the named user (line 105 left out)
InboxSkipsLookup(request) == SharedInbox(request)

\* inbox(request, username), lines 99-107
Inbox(request) ==
    IF ~LocalnameExists(request.username)
    THEN Crash(Arrived(request), "DoesNotExist")
    ELSE SharedInbox(request)

\* A worker takes the next inbound request and runs the view up to the
\* handler call.
Receive(p) ==
    /\ req[p].pc \in {"idle", "done"}
    /\ nreq < MaxRequests
    /\ \E request \in Requests :
        req' = [req EXCEPT ![p] = IF request.endpoint = "inbox"
                                  THEN Inbox(request)
                                  ELSE SharedInbox(request)]
    /\ nreq' = nreq + 1
    /\ UNCHANGED <<pagevars, dbvars>>

(***************************************************************************)
(* Remote actor resolver: remote_user.get_or_create_remote_user            *)
(***************************************************************************)
UsersByActor(actor) == {u \in users : u.actor = actor}

TheUser(actor) == CHOOSE u \in UsersByActor(actor) : TRUE

\* the resolver called on activity['object'] in the follow handler
ResolverArgumentObject(slot) ==
    IF slot.handler = "follow" THEN slot.activity.object.actor ELSE slot.activity.actor

\* the identifier a handler hands to the resolver: activity['actor']
\* (lines 250, 267, 275)
ResolverArgument(slot) == slot.activity.actor

\* the find step: a stored actor with this identifier is returned as it is
ResolveLookup(p) ==
    /\ req[p].pc = "resolve"
    /\ LET actor == ResolverArgument(req[p]) IN
        req' = [req EXCEPT ![p] =
                    IF UsersByActor(actor) # {}
                    THEN [@ EXCEPT !.pc = "finish", !.user = TheUser(actor),
                                   !.resolved = "found"]
                    ELSE [@ EXCEPT !.pc = "fetch"]]
    /\ UNCHANGED <<pagevars, dbvars, nreq>>

\* the create step after a miss: fetch the actor document, then store a new
\* non-local actor under the persistence layer's uniqueness guard.  When
\* another worker stored the identifier in between, the guard either hands
\* back the stored row (find-or-create transaction) or rejects the insert
\* (unique constraint).
ResolveFetch(p) ==
    /\ req[p].pc = "fetch"
    /\ LET actor == ResolverArgument(req[p])
           row == [pk |-> Cardinality(users) + 1, actor |-> actor, local |-> FALSE]
       IN  \/ /\ req' = [req EXCEPT ![p] =
                            Crash([@ EXCEPT !.resolved = "failed"], "FetchError")]
              /\ UNCHANGED users
           \/ /\ UsersByActor(actor) = {}
              /\ users' = users \cup {row}
              /\ req' = [req EXCEPT ![p] = [@ EXCEPT !.pc = "finish", !.user = row,
                                                     !.resolved = "created"]]
           \/ /\ UsersByActor(actor) # {}
              /\ UNCHANGED users
              /\ \/ req' = [req EXCEPT ![p] =
                                [@ EXCEPT !.pc = "finish", !.user = TheUser(actor),
                                          !.resolved = "raced"]]
                 \/ req' = [req EXCEPT ![p] =
                                Crash([@ EXCEPT !.resolved = "failed"], "IntegrityError")]
    /\ UNCHANGED <<pagevars, followers, follow_activities, activities, reviews,
                   shelve_activities, shelf_books, books, accepts, nreq>>

(***************************************************************************)
(* Handlers                                                                *)
(***************************************************************************)
\* handle_incoming_shelve with the statements of lines 228-241 run instead of
\* quoted: the book is fetched or created and a ShelfBook is saved
HandleIncomingShelveSaves(p) ==
    /\ req[p].pc = "shelve"
    /\ IF req[p].activity.id \in shelve_activities
       THEN /\ books' = books \cup {"b2"}
            /\ shelf_books' = shelf_books \cup {[book |-> "b2",
                                                  added_by |-> req[p].activity.actor]}
            /\ req' = [req EXCEPT ![p] = Return(@, "OK")]
       ELSE /\ req' = [req EXCEPT ![p] = Crash(@, "DoesNotExist")]
            /\ UNCHANGED <<books, shelf_books>>
    /\ UNCHANGED <<pagevars, users, followers, follow_activities, activities,
                   reviews, shelve_activities, accepts, nreq>>

\* handle_incoming_shelve, lines 220-242: objects.get raises DoesNotExist
\* when no row has the uuid; what follows the lookup is a string literal.
HandleIncomingShelve(p) ==
    /\ req[p].pc = "shelve"
    /\ req' = [req EXCEPT ![p] =
                IF req[p].activity.id \in shelve_activities
                THEN Return(@, "OK")
                ELSE Crash(@, "DoesNotExist")]
    /\ UNCHANGED <<pagevars, dbvars, nreq>>

\* handle_incoming_follow, line 248: to_follow = User.objects.get(actor=object)
FollowLookup(p) ==
    /\ req[p].pc = "follow"
    /\ LET target == req[p].activity.object.actor IN
        req' = [req EXCEPT ![p] =
                    IF UsersByActor(target) = {}
                    THEN Crash(@, "DoesNotExist")
                    ELSE [@ EXCEPT !.pc = "resolve", !.target = TheUser(target)]]
    /\ UNCHANGED <<pagevars, dbvars, nreq>>

\* handle_incoming_follow, lines 251-259: the FollowActivity is constructed
\* and dropped (no save()), the Accept is handed to outgoing, 200 is returned.
FollowFinish(p) ==
    /\ req[p].pc = "finish"
    /\ req[p].handler = "follow"
    /\ accepts' = accepts \cup {[id |-> req[p].activity.id,
                                 user |-> req[p].user.actor,
                                 to_follow |-> req[p].target.actor]}
    /\ req' = [req EXCEPT ![p] = Return([@ EXCEPT !.sent = @ + 1], "OK")]
    /\ UNCHANGED <<pagevars, users, followers, follow_activities, activities,
                   reviews, shelve_activities, shelf_books, books, nreq>>

\* handle_incoming_follow_accept, line 265:
\* requester = User.objects.get(actor=activity['object']['actor'])
AcceptLookup(p) ==
    /\ req[p].pc = "accept"
    /\ LET requester == req[p].activity.object.actor IN
        req' = [req EXCEPT ![p] =
                    IF UsersByActor(requester) = {}
                    THEN Crash(@, "DoesNotExist")
                    ELSE [@ EXCEPT !.pc = "resolve", !.target = TheUser(requester)]]
    /\ UNCHANGED <<pagevars, dbvars, nreq>>

\* line 269 with the two users swapped: requester.followers.add(accepter)
FollowerPairSwapped(slot) == <<slot.target.actor, slot.user.actor>>

\* line 269, accepter.followers.add(requester): the pair <<followed, follower>>
FollowerPair(slot) == <<slot.user.actor, slot.target.actor>>

\* handle_incoming_follow_accept, lines 269-270
AcceptFinish(p) ==
    /\ req[p].pc = "finish"
    /\ req[p].handler = "accept"
    /\ followers' = followers \cup {FollowerPair(req[p])}
    /\ req' = [req EXCEPT ![p] = Return(@, "OK")]
    /\ UNCHANGED <<pagevars, users, follow_activities, activities, reviews,
                   shelve_activities, shelf_books, books, accepts, nreq>>

\* activity.create_review(user, book, name, content, rating): the new Review
NewReview(user) == [pk |-> Cardinality(reviews) + 1, user |-> user.actor, book |-> "b1"]

\* the row of lines 296-302 (ReviewActivity: content = activity['object'])
\* or of lines 305-310 (Activity: content = activity)
ActivityRow(kind, slot, book) ==
    [pk |-> Cardinality(activities) + 1, uuid |-> slot.activity.id, kind |-> kind,
     activity_type |-> slot.activity.object.type, user |-> slot.user.actor,
     content |-> IF kind = "Activity" THEN slot.activity ELSE slot.activity.object,
     book |-> book]

\* objects.create answering OK without a row when the uuid is already stored
CreateRowSkipsDuplicate(p, row) ==
    IF \E r \in activities : r.uuid = row.uuid
    THEN /\ UNCHANGED activities
         /\ req' = [req EXCEPT ![p] = Return(@, "OK")]
    ELSE /\ activities' = activities \cup {row}
         /\ req' = [req EXCEPT ![p] = Return(@, "OK")]

\* objects.create(uuid=...): the row is inserted; when a row with this uuid
\* is already stored, the insert either goes through (no constraint on uuid)
\* or is rejected with IntegrityError (uuid declared unique).
CreateRow(p, row) ==
    \/ /\ activities' = activities \cup {row}
       /\ req' = [req EXCEPT ![p] = Return(@, "OK")]
    \/ /\ \E r \in activities : r.uuid = row.uuid
       /\ UNCHANGED activities
       /\ req' = [req EXCEPT ![p] = Crash(@, "IntegrityError")]

\* the test of lines 281-282 with its second conjunct left out
IsReviewByMarkerOnly(object) == object.marker

\* lines 281-282: fedireadsType == 'Review' and 'inReplyTo' in the object
IsReview(object) == object.marker /\ object.inReplyTo

\* handle_incoming_create, lines 277-311, after the resolver returned
CreateFinish(p) ==
    /\ req[p].pc = "finish"
    /\ req[p].handler = "create"
    /\ LET slot == req[p]
           object == slot.activity.object
       IN  IF ~object.present
           THEN /\ req' = [req EXCEPT ![p] = Return(@, "BadRequest")]
                /\ UNCHANGED <<activities, reviews>>
           ELSE IF IsReview(object)
           THEN IF slot.user.local
                THEN \* lines 289-290: the review must exist already
                     IF \A r \in reviews : r.pk # object.review
                     THEN /\ req' = [req EXCEPT ![p] = Crash(@, "DoesNotExist")]
                          /\ UNCHANGED <<activities, reviews>>
                     ELSE IF object.type = "-"
                     THEN /\ req' = [req EXCEPT ![p] = Crash(@, "KeyError")]
                          /\ UNCHANGED <<activities, reviews>>
                     ELSE /\ CreateRow(p, ActivityRow("ReviewActivity", slot, "b1"))
                          /\ UNCHANGED reviews
                ELSE \* lines 292-295: create_review raises ValueError or saves
                     IF ~object.valid
                     THEN /\ req' = [req EXCEPT ![p] = Return(@, "BadRequest")]
                          /\ UNCHANGED <<activities, reviews>>
                     ELSE /\ reviews' = reviews \cup {NewReview(slot.user)}
                          /\ IF object.type = "-"
                             THEN /\ req' = [req EXCEPT ![p] = Crash(@, "KeyError")]
                                  /\ UNCHANGED activities
                             ELSE CreateRow(p, ActivityRow("ReviewActivity", slot, "b1"))
           ELSE IF object.type = "-"
                THEN /\ req' = [req EXCEPT ![p] = Crash(@, "KeyError")]
                     /\ UNCHANGED <<activities, reviews>>
                ELSE /\ CreateRow(p, ActivityRow("Activity", slot, "-"))
                     /\ UNCHANGED reviews
    /\ UNCHANGED <<pagevars, users, followers, follow_activities,
                   shelve_activities, shelf_books, books, accepts, nreq>>

(***************************************************************************)
(* The inbound endpoint as a state machine.                                *)
(***************************************************************************)
InitInbound ==
    /\ req = [p \in Procs |-> Idle]
    /\ users = {AliceRow}
    /\ followers = {}
    /\ follow_activities = {}
    /\ activities = {}
    /\ reviews = {[pk |-> 1, user |-> "alice", book |-> "b1"]}
    /\ shelve_activities = {"a1"}
    /\ shelf_books = {}
    /\ books = {"b1"}
    /\ accepts = {}
    /\ nreq = 0

Init ==
    /\ InitInbound
    /\ user_list = <<>>
    /\ response = NoResponse

Next ==
    \E p \in Procs :
        \/ Receive(p)
        \/ ResolveLookup(p)
        \/ ResolveFetch(p)
        \/ HandleIncomingShelve(p)
        \/ FollowLookup(p)
        \/ FollowFinish(p)
        \/ AcceptLookup(p)
        \/ AcceptFinish(p)
        \/ CreateFinish(p)

Spec == Init /\ [][Next]_vars

\* The collections the endpoints format: n distinct actors, in order.
Collections == {[i \in 1..n |-> i] : n \in 0..MaxItems}

InitPage ==
    /\ user_list \in Collections
    /\ response = NoResponse
    /\ InitInbound

\* get_followers / get_following without a page parameter
GetCollection ==
    /\ response' = FormatFollowInfo(user_list, <<>>)
    /\ UNCHANGED <<user_list, req, dbvars, nreq>>

\* get_followers / get_following with ?page=p
GetCollectionPage ==
    \E p \in 1..MaxPage :
        /\ response' = FormatFollowInfo(user_list, <<p>>)
        /\ UNCHANGED <<user_list, req, dbvars, nreq>>

NextPage == GetCollection \/ GetCollectionPage

SpecPage == InitPage /\ [][NextPage]_vars

(***************************************************************************)
(* Claims about the inbound endpoint.                                      *)
(***************************************************************************)
Supported == {"Add", "Follow", "Create", "Accept"}
Finished(p) == req[p].pc = "done"
Authenticated(p) == req[p].verify = "verified"

\* C1: every authenticated POST with a JSON body is routed by its type: Add
\* to the shelve handler, Follow to the follow handler, Create to the create
\* handler, Accept to the follow-accept handler; any other type, and a body
\* without a 'type' field, ends in NotFound with no handler run.
C1_DispatchComplete ==
    \A p \in Procs :
        Authenticated(p) =>
            LET type == req[p].activity.type IN
            /\ type = "Add" => req[p].handler = "shelve"
            /\ type = "Follow" => req[p].handler = "follow"
            /\ type = "Create" => req[p].handler = "create"
            /\ type = "Accept" => req[p].handler = "accept"
            /\ type \notin Supported =>
                /\ req[p].handler = "none"
                /\ Finished(p)
                /\ req[p].outcome = "NotFound"

\* C2: every way verify_signature can fail makes shared_inbox answer
\* Unauthorized (401); no failure escapes unhandled.
C2_EveryAuthFailureIs401 ==
    \A p \in Procs :
        req[p].verify \notin {"not_run", "verified"} =>
            /\ req[p].outcome = "Unauthorized"
            /\ req[p].exc = "none"

\* C3: once handle_incoming_follow has answered OK to a Follow from a known
\* actor aimed at an existing local user, exactly one persisted FollowActivity
\* with the activity's id exists (also after the id was delivered again).
C3_OneFollowRelationship ==
    \A p \in Procs :
        ( /\ Finished(p)
          /\ req[p].handler = "follow"
          /\ req[p].resolved = "found"
          /\ ~req[p].user.local
          /\ req[p].target.local
          /\ req[p].outcome = "OK" ) =>
            Cardinality({f \in follow_activities : f.uuid = req[p].activity.id}) = 1

SameId(p) == \E row \in activities : row.uuid = req[p].activity.id

\* this very activity was recorded by an earlier delivery
AlreadyProcessed(p) ==
    \E row \in activities :
        /\ row.uuid = req[p].activity.id
        /\ \/ row.kind = "Activity" /\ row.content = req[p].activity
           \/ row.kind = "ReviewActivity" /\ row.content = req[p].activity.object

\* C4: a Create whose id was processed before leaves the stored activity
\* records and the reviews as they are and is answered OK.
C4_CreateRedeliveryIsNoOp ==
    [][\A p \in Procs :
        (CreateFinish(p) /\ req[p].activity.object.present /\ AlreadyProcessed(p)) =>
            /\ activities' = activities
            /\ reviews' = reviews
            /\ req'[p].outcome = "OK"]_vars

ResolverEnded(p) == req[p].resolved # "-"
OneRowPerActor == \A u, v \in users : u.actor = v.actor => u = v
RemoteRowsNonLocal == \A u \in users : u.local <=> u = AliceRow

GenericRows(rows) == {r \in rows : r.kind = "Activity"}
ReviewRows(rows) == {r \in rows : r.kind = "ReviewActivity"}

C9_ShelveAlwaysOK ==
    \A p \in Procs :
        (Finished(p) /\ req[p].handler = "shelve") => req[p].outcome = "OK"

NothingRan(p) ==
    /\ ~req[p].parsed
    /\ req[p].verify = "not_run"
    /\ req[p].fetches = 0
    /\ req[p].handler = "none"

\* C10: a GET to the shared inbox or to a per-user inbox (whatever the
\* username) is answered 404 with no parse, no verification and no handler;
\* a POST to the inbox of a user that does not exist fails with a lookup
\* failure before any verification or handler.
C10_GetIsAlways404 ==
    \A p \in Procs :
        Finished(p) =>
            /\ req[p].method = "GET" =>
                /\ req[p].outcome = "NotFound"
                /\ NothingRan(p)
            /\ ( /\ req[p].method = "POST"
                 /\ req[p].endpoint = "inbox"
                 /\ ~LocalnameExists(req[p].username) ) =>
                /\ req[p].exc = "DoesNotExist"
                /\ NothingRan(p)

\* C10 (amended): a GET to the shared inbox, or to the inbox of an existing
\* user, is answered 404 with no parse, no verification and no handler; any
\* request to the inbox of a user that does not exist, GET included, fails
\* with a lookup failure before any parse, verification or handler.
C10_GetIs404ForExistingUser ==
    \A p \in Procs :
        Finished(p) =>
            /\ ( /\ req[p].method = "GET"
                 /\ \/ req[p].endpoint = "shared_inbox"
                    \/ LocalnameExists(req[p].username) ) =>
                /\ req[p].outcome = "NotFound"
                /\ req[p].exc = "none"
                /\ NothingRan(p)
            /\ ( /\ req[p].endpoint = "inbox"
                 /\ ~LocalnameExists(req[p].username) ) =>
                /\ req[p].outcome = "ServerError"
                /\ req[p].exc = "DoesNotExist"
                /\ NothingRan(p)

\* a GET to alice's inbox was answered 404 and a POST to the inbox of a user
\* that does not exist failed in the lookup
C10_Witness ==
    \E p, q \in Procs :
        /\ Finished(p) /\ Finished(q)
        /\ req[p].method = "GET" /\ req[p].endpoint = "inbox"
        /\ req[p].username = "alice" /\ req[p].outcome = "NotFound"
        /\ req[q].method = "POST" /\ req[q].endpoint = "inbox"
        /\ req[q].username = "nobody" /\ req[q].exc = "DoesNotExist"

\* C11: handle_incoming_follow_accept adds the requester (the user named by
\* activity['object']['actor']) to the followers of the accepter
\* (activity['actor']) and answers OK; applied again it leaves the follower
\* relation as it is, and no other pair is ever added or removed.
C11_AcceptAddsFollowerOnce ==
    [][\A p \in Procs :
        LET pair == <<req[p].activity.actor, req[p].activity.object.actor>> IN
        /\ AcceptFinish(p) =>
            /\ followers' = followers \cup {pair}
            /\ pair \in followers => followers' = followers
            /\ req'[p].outcome = "OK"
        /\ ( /\ req[p].handler = "accept"
             /\ AcceptLookup(p) \/ ResolveLookup(p) \/ ResolveFetch(p) ) =>
            followers' = followers]_vars

\* the same Accept of bob for alice's request was applied twice and alice is
\* a follower of bob once
C11_Witness ==
    /\ \A p \in Procs :
        /\ Finished(p)
        /\ req[p].handler = "accept"
        /\ req[p].activity.actor = "bob"
        /\ req[p].activity.object.actor = "alice"
        /\ req[p].outcome = "OK"
    /\ followers = {<<"bob", "alice">>}

\* C12: no handler side effect happens before signature verification has
\* succeeded: every handler step, and every change to the stored records, is
\* made for a request whose verification succeeded, and a request that ends
\* without a successful verification leaves the stored records as they were
\* and has run no handler.
C12_NoSideEffectBeforeVerification ==
    [][\A p \in Procs :
        req'[p] # req[p] =>
            /\ req[p].pc \notin {"idle", "done"} => req[p].verify = "verified"
            /\ req'[p].verify # "verified" =>
                /\ UNCHANGED dbvars
                /\ req'[p].pc = "done"
                /\ req'[p].handler = "none" /\ req'[p].resolved = "-"
                /\ req'[p].sent = 0
            /\ req'[p].handler # "none" => req'[p].verify = "verified"]_vars

\* one request was verified and its handler changed the stored records,
\* the other failed verification and ended 401 with nothing run
C12_Witness ==
    /\ Finished("w1") /\ req["w1"].verify = "verified"
    /\ req["w1"].handler = "accept" /\ followers # {}
    /\ Finished("w2") /\ req["w2"].verify = "signature_mismatch"
    /\ req["w2"].outcome = "Unauthorized" /\ req["w2"].handler = "none"

\* C13: the string the signature is checked against has one line per
\* header name of the Signature 'headers' field, and its (request-target)
\* line is "(request-target): <lowercased method> <path>" for whatever
\* method the request used.
C13_RequestTargetUsesMethod ==
    \A p \in Procs :
        \A i \in DOMAIN req[p].comparison :
            req[p].comparison[i][1] = "(request-target)" =>
                req[p].comparison[i]
                    = <<"(request-target)", Lower(req[p].method), Path(req[p].endpoint)>>

\* C14: handle_incoming_follow triggers the Accept exactly once per
\* processed Follow, only after the followed local user and the following
\* actor were both resolved, and when it triggers it a persisted
\* FollowActivity with the Follow's id already exists.
C14_AcceptOnceAfterPersist ==
    [][\A p \in Procs :
        ( /\ req[p].handler = "follow"
          /\ req[p].target.local
          /\ req'[p].sent > req[p].sent ) =>
            /\ req[p].sent = 0 /\ req'[p].sent = 1
            /\ req[p].target \in users
            /\ req[p].user \in users
            /\ \E f \in follow_activities : f.uuid = req[p].activity.id]_vars

\* C15: a Follow whose object does not identify an existing local user
\* fails in handle_incoming_follow with a lookup failure before any side
\* effect: the resolver is not called (no remote actor fetched or created),
\* no follow record is stored and no Accept is sent.
C15_FollowOfNonLocalFails ==
    \A p \in Procs :
        LET object == req[p].activity.object.actor IN
        ( /\ req[p].handler = "follow"
          /\ req[p].pc # "follow"
          /\ ~\E u \in users : u.actor = object /\ u.local ) =>
            /\ Finished(p)
            /\ req[p].exc = "DoesNotExist"
            /\ req[p].resolved = "-"
            /\ req[p].sent = 0

\* C16: a call of handle_incoming_create that returns BadRequest (no
\* 'object', or a remote actor's review that fails validation) has created
\* no Activity, ReviewActivity or Review; and the calls that create an
\* activity record are exactly the calls that return OK (one row, carrying
\* the activity's id).
C16_BadRequestCreatesNothing ==
    [][\A p \in Procs :
        ( /\ req[p].handler = "create"
          /\ req[p].pc \in {"resolve", "fetch", "finish"}
          /\ req'[p] # req[p] ) =>
            /\ req'[p].outcome = "BadRequest" =>
                /\ activities' = activities
                /\ reviews' = reviews
                /\ \/ ~req[p].activity.object.present
                   \/ /\ IsReview(req[p].activity.object)
                      /\ ~req[p].user.local
            /\ req'[p].outcome = "OK" <=> activities' # activities
            /\ activities' # activities =>
                \E row \in activities' \ activities :
                    /\ activities' = activities \cup {row}
                    /\ row.uuid = req[p].activity.id]_vars

\* one Create of a remote actor's review was refused (validation failed) and
\* another one was recorded with its new review
C16_Witness ==
    /\ Finished("w1") /\ req["w1"].handler = "create"
    /\ req["w1"].outcome = "BadRequest" /\ req["w1"].activity.object.present
    /\ Finished("w2") /\ req["w2"].handler = "create"
    /\ req["w2"].outcome = "OK"
    /\ \E row \in activities : row.kind = "ReviewActivity"
    /\ Cardinality(activities) = 1
    /\ Cardinality(reviews) = 2

\* C17: handle_incoming_shelve never changes local state: across the call
\* made for any Add activity, the shelving-activity records, the shelf
\* entries, the users and the books (and every other stored record) stay
\* exactly what they were.
C17_ShelveChangesNothing ==
    [][\A p \in Procs :
        (req[p].pc = "shelve" /\ req'[p] # req[p]) =>
            /\ shelve_activities' = shelve_activities
            /\ shelf_books' = shelf_books
            /\ users' = users
            /\ books' = books
            /\ UNCHANGED dbvars]_vars

\* an Add whose ShelveActivity row exists and one whose row does not have
\* both been handled
C17_Witness ==
    /\ Finished("w1") /\ req["w1"].handler = "shelve" /\ req["w1"].outcome = "OK"
    /\ Finished("w2") /\ req["w2"].handler = "shelve"
    /\ req["w2"].exc = "DoesNotExist"
    /\ shelve_activities = {"a1"} /\ shelf_books = {} /\ books = {"b1"}

IsPage(r) == r.type = "OrderedCollectionPage"
PageOf(r) == r.id[2]

\* C6: for every collection size n and page p >= 1 the page carries 'next'
\* iff n > p*10 (items remain beyond the page) and 'prev' iff p > 1.
C6_NextIffItemsRemain ==
    IsPage(response) =>
        /\ ("next" \in DOMAIN response) <=> (Len(user_list) > PageOf(response) * 10)
        /\ ("prev" \in DOMAIN response) <=> (PageOf(response) > 1)

RECURSIVE ConcatPages(_, _, _)
ConcatPages(list, p, last) ==
    IF p > last THEN <<>>
    ELSE GetFollowPage(list, p).orderedItems \o ConcatPages(list, p + 1, last)

NumPages(n) == (n + page_length - 1) \div page_length

\* C7: a page holds exactly the items at positions [(p-1)*10, min(p*10, n))
\* in their original order, totalItems = n on every page, the pages
\* 1..ceil(n/10) concatenated give back the collection, and without a page
\* argument the answer is a summary: totalItems = n, 'first' -> page 1, no items.
C7_PageContents ==
    LET n == Len(user_list) IN
    /\ IsPage(response) =>
        LET p == PageOf(response)
            lo == Min((p - 1) * 10, n)
            hi == Min(p * 10, n)
        IN  /\ Len(response.orderedItems) = hi - lo
            /\ \A i \in 1..(hi - lo) : response.orderedItems[i] = user_list[lo + i]
            /\ response.totalItems = n
    /\ response.type = "OrderedCollection" =>
        /\ response.totalItems = n
        /\ response.first = <<id_slug, 1>>
        /\ "orderedItems" \notin DOMAIN response
    /\ response # NoResponse =>
        ConcatPages(user_list, 1, NumPages(n)) = user_list

\* a partial last page has been served (and so has a summary, elsewhere)
C7_Witness ==
    /\ IsPage(response)
    /\ PageOf(response) = 3
    /\ Len(user_list) = 25
    /\ Len(response.orderedItems) = 5

====
